---- MODULE Spec2Model ----
(***************************************************************************)
(* Model of xes-to-csv (src/change.go): ConvertXESToCSV and its helpers.   *)
(*                                                                         *)
(* Strings are TLA+ strings; a Go slice is a sequence; the Go map keyMap   *)
(* is a set of strings, and a `range` over it yields its elements in an    *)
(* order that the language leaves unspecified and re-draws at every range  *)
(* statement, so collectHeader is the SET of orders it can return.         *)
(***************************************************************************)
EXTENDS Naturals, Integers, Sequences, FiniteSets, TLC

(* ------------------------------ bounds -------------------------------- *)
\* most elements (traces, events and attributes together) in an input log
MaxNodes == 5

(* ----------------------------- constants ------------------------------ *)
\* the size in bytes of the bufio.Writer that csv.NewWriter puts before the file
BufSize == 4096

(* ------------------------------ strings ------------------------------- *)
CN == "concept:name"
CCN == "case:concept:name"

\* s n times over
RECURSIVE Rep(_, _)
Rep(s, n) ==
    IF n = 0 THEN ""
    ELSE IF n % 2 = 0 THEN Rep(s \o s, n \div 2)
    ELSE s \o Rep(s \o s, n \div 2)

\* a key and a value that alone fill the CSV writer's buffer
LongKey == Rep("k", BufSize)
LongValue == Rep("x", BufSize)

\* attribute keys of the input logs
Keys == {CN, CCN, " concept:name"}
\* keys of the date attributes of the input logs
DateKeys == Keys \cup {LongKey}

\* input paths handed to ConvertXESToCSV
Paths == {"a.xes", "A.XES", "d/../a.Xes", ".xes", "a.xes/", "a.xes/.", "a.xes/d/..",
          "a.xml", "a.xes/..", "a.xes.csv", "xes", "", "/"}

\* the white space strings.TrimSpace removes, of the characters used here
IsSpace(c) == c \in {" ", "\t", "\n", "\r"}

RECURSIVE TrimLeft(_)
TrimLeft(s) ==
    IF Len(s) = 0 THEN s
    ELSE IF IsSpace(SubSeq(s, 1, 1)) THEN TrimLeft(SubSeq(s, 2, Len(s)))
    ELSE s

RECURSIVE TrimRight(_)
TrimRight(s) ==
    IF Len(s) = 0 THEN s
    ELSE IF IsSpace(SubSeq(s, Len(s), Len(s))) THEN TrimRight(SubSeq(s, 1, Len(s) - 1))
    ELSE s

\* strings.TrimSpace
TrimSpace(s) == TrimRight(TrimLeft(s))

LowerChar(c) ==
    CASE c = "A" -> "a"
      [] c = "D" -> "d"
      [] c = "E" -> "e"
      [] c = "L" -> "l"
      [] c = "M" -> "m"
      [] c = "S" -> "s"
      [] c = "X" -> "x"
      [] OTHER -> c

\* strings.ToLower
RECURSIVE ToLower(_)
ToLower(s) ==
    IF Len(s) = 0 THEN s
    ELSE LowerChar(SubSeq(s, 1, 1)) \o ToLower(SubSeq(s, 2, Len(s)))

\* strings.HasSuffix
HasSuffix(s, suffix) ==
    /\ Len(s) >= Len(suffix)
    /\ SubSeq(s, Len(s) - Len(suffix) + 1, Len(s)) = suffix

(* --------------------------- filepath.Clean --------------------------- *)
\* the path elements between separators, empty elements included
RECURSIVE SplitPath(_, _)
SplitPath(s, cur) ==
    IF Len(s) = 0 THEN <<cur>>
    ELSE IF SubSeq(s, 1, 1) = "/" THEN <<cur>> \o SplitPath(SubSeq(s, 2, Len(s)), "")
    ELSE SplitPath(SubSeq(s, 2, Len(s)), cur \o SubSeq(s, 1, 1))

\* one pass over the elements: drop "" and ".", let ".." remove the element
\* before it (at the root it is dropped, in a relative path it is kept)
RECURSIVE CleanElems(_, _, _)
CleanElems(elems, out, rooted) ==
    IF elems = <<>> THEN out
    ELSE LET e == Head(elems)
             rest == Tail(elems)
         IN  IF e = "" \/ e = "." THEN CleanElems(rest, out, rooted)
             ELSE IF e = ".." THEN
                 IF out # <<>> /\ out[Len(out)] # ".."
                 THEN CleanElems(rest, SubSeq(out, 1, Len(out) - 1), rooted)
                 ELSE IF rooted THEN CleanElems(rest, out, rooted)
                 ELSE CleanElems(rest, Append(out, e), rooted)
             ELSE CleanElems(rest, Append(out, e), rooted)

RECURSIVE JoinPath(_)
JoinPath(elems) ==
    IF elems = <<>> THEN ""
    ELSE IF Len(elems) = 1 THEN elems[1]
    ELSE elems[1] \o "/" \o JoinPath(Tail(elems))

\* filepath.Clean on a slash-separated path
Clean(path) ==
    IF path = "" THEN "."
    ELSE LET rooted == SubSeq(path, 1, 1) = "/"
             out == JoinPath(CleanElems(SplitPath(path, ""), <<>>, rooted))
         IN  IF rooted THEN "/" \o out
             ELSE IF out = "" THEN "."
             ELSE out

\* isValidXESFile without the ToLower
isValidXESFileCaseSensitive(filePath) == HasSuffix(filePath, ".xes")

\* isValidXESFile
isValidXESFile(filePath) == HasSuffix(ToLower(filePath), ".xes")

(* --------------------------- document model --------------------------- *)
\* StringAttribute / DateAttribute
Attr(k, v) == [Key |-> k, Value |-> v]
\* Event
NewEvent == [StringAttributes |-> <<>>, DateAttributes |-> <<>>]
\* Trace
NewTrace == [Events |-> <<>>, StringAttributes |-> <<>>]

EventAttrCount(e) == Len(e.StringAttributes) + Len(e.DateAttributes)

RECURSIVE EventsAttrCount(_)
EventsAttrCount(events) ==
    IF events = <<>> THEN 0 ELSE EventAttrCount(Head(events)) + EventsAttrCount(Tail(events))

\* attributes of a whole log
RECURSIVE AttrCount(_)
AttrCount(log) ==
    IF log = <<>> THEN 0
    ELSE Len(Head(log).StringAttributes) + EventsAttrCount(Head(log).Events) + AttrCount(Tail(log))

\* events of a whole log
RECURSIVE EventCount(_)
EventCount(log) == IF log = <<>> THEN 0 ELSE Len(Head(log).Events) + EventCount(Tail(log))

\* the value the n-th attribute written into the input carries, k its key:
\* all values differ; they carry leading, trailing or no surrounding white
\* space, some have a comma, one trims to \. (which the CSV writer quotes) and the
\* one under the long key is itself longer than the CSV writer's buffer
ValueOf(n, k) ==
    CASE k = LongKey -> " " \o LongValue \o ToString(n)
      [] n = 3       -> "\t\\."
      [] n % 3 = 1   -> " v" \o ToString(n) \o "  "
      [] n % 3 = 2   -> "v," \o ToString(n)
      [] OTHER       -> "\tv " \o ToString(n)

(* ------------------------------ the code ------------------------------ *)
\* collectAttributeKeys: the key set of the Go map
TraceKeys(trace) ==
    { IF trace.StringAttributes[i].Key = CN THEN CCN ELSE trace.StringAttributes[i].Key :
          i \in DOMAIN trace.StringAttributes }
EventKeys(event) ==
    { event.StringAttributes[i].Key : i \in DOMAIN event.StringAttributes }
      \cup { event.DateAttributes[i].Key : i \in DOMAIN event.DateAttributes }
collectAttributeKeys(log) ==
    UNION { TraceKeys(log[t]) \cup UNION { EventKeys(log[t].Events[e]) : e \in DOMAIN log[t].Events } :
                t \in DOMAIN log }

\* the orders in which one `range` over the map can yield its keys
Orders(keyMap) ==
    { p \in [1..Cardinality(keyMap) -> keyMap] : \A i, j \in DOMAIN p : i # j => p[i] # p[j] }

\* collectHeader: every slice one call can return
collectHeader(keyMap) ==
    { [i \in DOMAIN p |-> TrimSpace(p[i])] : p \in Orders(keyMap) }

\* findIndex, with Go's 0-based index and -1 for absent
findIndex(keys, key) ==
    IF \E i \in DOMAIN keys : keys[i] = key
    THEN (CHOOSE i \in DOMAIN keys : keys[i] = key /\ \A j \in 1..(i - 1) : keys[j] # key) - 1
    ELSE -1

\* setAttributeValue: the record after the call
setAttributeValue(record, keys, attr) ==
    LET index == findIndex(keys, attr.Key)
    IN  IF index # -1 THEN [record EXCEPT ![index + 1] = TrimSpace(attr.Value)] ELSE record

\* the third loop without its rename
RenameTraceAttrNone(attr) == attr

\* the trace-level rename in writeXESToCSV's third loop
RenameTraceAttr(attr) == IF attr.Key = CN THEN [attr EXCEPT !.Key = CCN] ELSE attr

RECURSIVE SetAll(_, _, _)
SetAll(record, keys, attrs) ==
    IF attrs = <<>> THEN record
    ELSE SetAll(setAttributeValue(record, keys, Head(attrs)), keys, Tail(attrs))

\* the attributes writeXESToCSV applies for one event, in the order it applies them
Applied(trace, event) ==
    event.StringAttributes \o event.DateAttributes
      \o [i \in DOMAIN trace.StringAttributes |-> RenameTraceAttr(trace.StringAttributes[i])]

\* the body of writeXESToCSV's inner loop: the record of one event
BuildRecord(keys, trace, event) ==
    SetAll([i \in DOMAIN keys |-> ""], keys, Applied(trace, event))

\* whether some setAttributeValue call of that loop body finds no column
SkipsAttr(keys, trace, event) ==
    \E i \in DOMAIN Applied(trace, event) : findIndex(keys, Applied(trace, event)[i].Key) = -1

\* the loops ending at the first trace that has no further event
SeekEndsAtEmptyTrace(log, t, e) ==
    IF t <= Len(log) /\ e <= Len(log[t].Events) THEN <<t, e>> ELSE <<Len(log) + 1, 1>>

\* the loop position (trace index, event index) of the first event at or after
\* (t, e); <<Len(log) + 1, 1>> when the loops are over
RECURSIVE Seek(_, _, _)
Seek(log, t, e) ==
    IF t > Len(log) THEN <<Len(log) + 1, 1>>
    ELSE IF e <= Len(log[t].Events) THEN <<t, e>>
    ELSE Seek(log, t + 1, 1)

(* ------------------------------- state -------------------------------- *)
VARIABLES
    doc,          \* the log the input file holds
    pc,           \* where ConvertXESToCSV is
    XESFilePath,  \* the argument; not read after os.Open, where the model forgets it
    stages,       \* the stages ConvertXESToCSV has entered, in order
    opened,       \* os.Open was called on the input
    xes,          \* the decoded log
    keyMap,       \* collectAttributeKeys' result
    created,      \* os.Create was called on the output
    bom,          \* the BOM reached the output file
    header,       \* the slice written as the header record
    keys,         \* writeXESToCSV's column list
    pos,          \* writeXESToCSV's loop position <<trace, event>>
    written,      \* the records the CSV writer has accepted, header first
    sources,      \* the loop position each data record was built at
    bufw,         \* the CSV writer's bufio.Writer: n bytes buffered, f bytes passed on
                  \* to the output file after the BOM, err once a write to the file failed
    skipped,      \* some setAttributeValue call found no column
    result,       \* ConvertXESToCSV's return value: "none" while it runs, "nil" or the error
    run,          \* 1 in the first conversion of the input, 2 in the second
    prev          \* in the second conversion: the records the first left in its file

locals == <<stages, opened, xes, keyMap, created, bom, header, keys, pos, written, sources,
            bufw, skipped>>

vars == <<doc, pc, XESFilePath, locals, result, run, prev>>

ErrExtension == "input file must be an XES file"
ErrOpen == "failed to open XES file"
ErrDecode == "failed to decode XES file"
ErrCreate == "failed to create CSV file"
ErrBOM == "failed to write UTF-8 BOM"
ErrHeader == "failed to write CSV header"
ErrRecord == "failed to write CSV record"

\* the state of a conversion that has not been called yet
Fresh ==
    /\ pc' = "input"
    /\ XESFilePath' = ""
    /\ stages' = <<>>
    /\ opened' = FALSE
    /\ xes' = <<>>
    /\ keyMap' = {}
    /\ created' = FALSE
    /\ bom' = FALSE
    /\ header' = <<>>
    /\ keys' = <<>>
    /\ pos' = <<1, 1>>
    /\ written' = <<>>
    /\ sources' = <<>>
    /\ bufw' = [n |-> 0, f |-> 0, err |-> FALSE]
    /\ skipped' = FALSE
    /\ result' = "none"

Init ==
    /\ doc = <<>>
    /\ pc = "input"
    /\ XESFilePath = ""
    /\ stages = <<>>
    /\ opened = FALSE
    /\ xes = <<>>
    /\ keyMap = {}
    /\ created = FALSE
    /\ bom = FALSE
    /\ header = <<>>
    /\ keys = <<>>
    /\ pos = <<1, 1>>
    /\ written = <<>>
    /\ sources = <<>>
    /\ bufw = [n |-> 0, f |-> 0, err |-> FALSE]
    /\ skipped = FALSE
    /\ result = "none"
    /\ run = 1
    /\ prev = <<>>

(* ----------------------- the input file's content ---------------------- *)
\* The file is written element by element in document order: a trace's own
\* attributes before its events, an event's strings before its dates (the
\* decoder appends each element to its slice wherever it stands in the trace).
NodeCount(log) == Len(log) + EventCount(log) + AttrCount(log)

Authoring == pc = "input" /\ run = 1 /\ NodeCount(doc) < MaxNodes

AddTrace ==
    /\ Authoring
    /\ doc' = Append(doc, NewTrace)
    /\ UNCHANGED <<pc, XESFilePath, locals, result, run, prev>>

AddEvent ==
    /\ Authoring
    /\ doc # <<>>
    /\ doc' = [doc EXCEPT ![Len(doc)].Events = Append(@, NewEvent)]
    /\ UNCHANGED <<pc, XESFilePath, locals, result, run, prev>>

AddTraceString(k) ==
    /\ Authoring
    /\ doc # <<>>
    /\ doc[Len(doc)].Events = <<>>
    /\ doc' = [doc EXCEPT ![Len(doc)].StringAttributes =
                              Append(@, Attr(k, ValueOf(AttrCount(doc) + 1, k)))]
    /\ UNCHANGED <<pc, XESFilePath, locals, result, run, prev>>

AddEventString(k) ==
    /\ Authoring
    /\ doc # <<>>
    /\ doc[Len(doc)].Events # <<>>
    /\ LET n == Len(doc[Len(doc)].Events)
       IN  /\ doc[Len(doc)].Events[n].DateAttributes = <<>>
           /\ doc' = [doc EXCEPT ![Len(doc)].Events[n].StringAttributes =
                                      Append(@, Attr(k, ValueOf(AttrCount(doc) + 1, k)))]
    /\ UNCHANGED <<pc, XESFilePath, locals, result, run, prev>>

AddEventDate(k) ==
    /\ Authoring
    /\ doc # <<>>
    /\ doc[Len(doc)].Events # <<>>
    /\ LET n == Len(doc[Len(doc)].Events)
       IN  doc' = [doc EXCEPT ![Len(doc)].Events[n].DateAttributes =
                                  Append(@, Attr(k, ValueOf(AttrCount(doc) + 1, k)))]
    /\ UNCHANGED <<pc, XESFilePath, locals, result, run, prev>>

(* --------------------------- ConvertXESToCSV --------------------------- *)
\* the call: filepath.Clean, then the extension check
Call(p) ==
    /\ pc = "input"
    /\ XESFilePath' = p
    /\ stages' = <<"validate">>
    /\ IF isValidXESFile(Clean(p))
       THEN pc' = "open" /\ result' = result
       ELSE pc' = "done" /\ result' = ErrExtension
    /\ UNCHANGED <<doc, opened, xes, keyMap, created, bom, header, keys, pos, written,
                   sources, bufw, skipped, run, prev>>

\* os.Open succeeds, with os.Create moved up before the decoding
OpenOkCreatesOutput ==
    /\ pc = "open"
    /\ stages' = Append(stages, "open")
    /\ opened' = TRUE
    /\ created' = TRUE
    /\ XESFilePath' = ""
    /\ pc' = "decode"
    /\ UNCHANGED <<doc, xes, keyMap, bom, header, keys, pos, written, sources,
                   bufw, skipped, result, run, prev>>

\* os.Open succeeds
OpenOk ==
    /\ pc = "open"
    /\ stages' = Append(stages, "open")
    /\ opened' = TRUE
    /\ XESFilePath' = ""
    /\ pc' = "decode"
    /\ UNCHANGED <<doc, xes, keyMap, created, bom, header, keys, pos, written, sources,
                   bufw, skipped, result, run, prev>>

\* os.Open fails
OpenFail ==
    /\ pc = "open"
    /\ stages' = Append(stages, "open")
    /\ opened' = TRUE
    /\ XESFilePath' = ""
    /\ pc' = "done"
    /\ result' = ErrOpen
    /\ UNCHANGED <<doc, xes, keyMap, created, bom, header, keys, pos, written, sources,
                   bufw, skipped, run, prev>>

\* decoder.Decode succeeds
DecodeOk ==
    /\ pc = "decode"
    /\ stages' = Append(stages, "decode")
    /\ xes' = doc
    /\ pc' = "collect"
    /\ UNCHANGED <<doc, XESFilePath, opened, keyMap, created, bom, header, keys, pos,
                   written, sources, bufw, skipped, result, run, prev>>

\* decoder.Decode fails: the file is not well-formed
DecodeFail ==
    /\ pc = "decode"
    /\ stages' = Append(stages, "decode")
    /\ pc' = "done"
    /\ result' = ErrDecode
    /\ UNCHANGED <<doc, XESFilePath, opened, xes, keyMap, created, bom, header, keys, pos,
                   written, sources, bufw, skipped, run, prev>>

\* keyMap := collectAttributeKeys(xes)
CollectKeys ==
    /\ pc = "collect"
    /\ stages' = Append(stages, "collect")
    /\ keyMap' = collectAttributeKeys(xes)
    /\ pc' = "create"
    /\ UNCHANGED <<doc, XESFilePath, opened, xes, created, bom, header, keys, pos, written,
                   sources, bufw, skipped, result, run, prev>>

\* os.Create succeeds: the output file exists and is empty
CreateOk ==
    /\ pc = "create"
    /\ stages' = Append(stages, "create")
    /\ created' = TRUE
    /\ pc' = "bom"
    /\ UNCHANGED <<doc, XESFilePath, opened, xes, keyMap, bom, header, keys, pos, written,
                   sources, bufw, skipped, result, run, prev>>

\* os.Create fails
CreateFail ==
    /\ pc = "create"
    /\ stages' = Append(stages, "create")
    /\ pc' = "done"
    /\ result' = ErrCreate
    /\ UNCHANGED <<doc, XESFilePath, opened, xes, keyMap, created, bom, header, keys, pos,
                   written, sources, bufw, skipped, run, prev>>

\* csvFile.WriteString(BOM) succeeds
WriteBOMOk ==
    /\ pc = "bom"
    /\ stages' = Append(stages, "bom")
    /\ bom' = TRUE
    /\ pc' = "header"
    /\ UNCHANGED <<doc, XESFilePath, opened, xes, keyMap, created, header, keys, pos,
                   written, sources, bufw, skipped, result, run, prev>>

\* csvFile.WriteString(BOM) fails
WriteBOMFail ==
    /\ pc = "bom"
    /\ stages' = Append(stages, "bom")
    /\ pc' = "done"
    /\ result' = ErrBOM
    /\ UNCHANGED <<doc, XESFilePath, opened, xes, keyMap, created, bom, header, keys, pos,
                   written, sources, bufw, skipped, run, prev>>

(* ---- csv.Writer over bufio.Writer over the output file ----
   ok says whether the file accepts the writes of the call at hand; a write
   that fails leaves the file as it was and the writer keeps the error. *)
\* bufio.Writer.Flush
Flush(b, ok) ==
    IF b.err \/ b.n = 0 THEN b
    ELSE IF ok THEN [b EXCEPT !.n = 0, !.f = @ + b.n]
    ELSE [b EXCEPT !.err = TRUE]

\* bufio.Writer.WriteString of a string of len bytes: a string that does not
\* fit goes straight to the file when the buffer is empty (the file is an
\* io.StringWriter), else it fills the buffer, which is bufw
RECURSIVE WriteString(_, _, _)
WriteString(b, len, ok) ==
    IF b.err THEN b
    ELSE IF len > BufSize - b.n THEN
        IF b.n = 0
        THEN IF ok THEN [b EXCEPT !.f = @ + len] ELSE [b EXCEPT !.err = TRUE]
        ELSE WriteString(Flush([b EXCEPT !.n = BufSize], ok), len - (BufSize - b.n), ok)
    ELSE [b EXCEPT !.n = @ + len]

\* bufio.Writer.WriteByte (WriteRune of the comma ends here too)
WriteByte(b, ok) ==
    IF b.err THEN b
    ELSE IF b.n >= BufSize
    THEN LET c == Flush(b, ok) IN IF c.err THEN c ELSE [c EXCEPT !.n = @ + 1]
    ELSE [b EXCEPT !.n = @ + 1]

\* a string of one character repeated: it is its own shift
IsRun(s) == SubSeq(s, 1, Len(s) - 1) = SubSeq(s, 2, Len(s))

\* the length of the run of equal characters a non-empty string starts with,
\* known to lie in lo..hi
RECURSIVE RunLen(_, _, _)
RunLen(s, lo, hi) ==
    IF lo = hi THEN lo
    ELSE IF IsRun(SubSeq(s, 1, hi)) THEN hi
    ELSE LET mid == (lo + hi) \div 2
         IN  IF IsRun(SubSeq(s, 1, mid))
             THEN RunLen(s, mid, hi - 1)
             ELSE RunLen(s, lo, mid - 1)

\* strings.IndexAny(s, chars) + 1: the place of the first character of s that
\* is one of chars, 0 when there is none; s is read run by run
RECURSIVE IndexAny(_, _)
IndexAny(s, chars) ==
    IF s = "" THEN 0
    ELSE IF SubSeq(s, 1, 1) \in chars THEN 1
    ELSE LET n == RunLen(s, 1, Len(s))
             rest == IndexAny(SubSeq(s, n + 1, Len(s)), chars)
         IN  IF rest = 0 THEN 0 ELSE n + rest

\* csv.Writer.fieldNeedsQuotes, for the comma as delimiter
fieldNeedsQuotes(field) ==
    /\ field # ""
    /\ \/ field = "\\."
       \/ IndexAny(field, {",", "\"", "\r", "\n"}) # 0
       \/ IsSpace(SubSeq(field, 1, 1))

\* strings.IndexAny(field, "\"\r\n") + 1, Len(field) + 1 when there is none
IndexSpecial(field) ==
    LET i == IndexAny(field, {"\"", "\r", "\n"})
    IN  IF i = 0 THEN Len(field) + 1 ELSE i

\* the loop of csv.Writer.Write over a field it quotes: the runs between
\* quotes and line breaks as they are, a quote doubled, UseCRLF unset
RECURSIVE WriteQuotedBody(_, _, _)
WriteQuotedBody(b, field, ok) ==
    IF field = "" THEN b
    ELSE LET i == IndexSpecial(field)
             run1 == WriteString(b, i - 1, ok)
         IN  IF i > Len(field) THEN run1
             ELSE WriteQuotedBody(IF SubSeq(field, i, i) = "\"" THEN WriteString(run1, 2, ok)
                                  ELSE WriteByte(run1, ok),
                                  SubSeq(field, i + 1, Len(field)), ok)

\* csv.Writer.Write of one field
WriteField(b, field, ok) ==
    IF fieldNeedsQuotes(field)
    THEN WriteByte(WriteQuotedBody(WriteByte(b, ok), field, ok), ok)
    ELSE WriteString(b, Len(field), ok)

RECURSIVE WriteFields(_, _, _, _)
WriteFields(b, record, n, ok) ==
    IF n > Len(record) THEN b
    ELSE WriteFields(WriteField(IF n > 1 THEN WriteByte(b, ok) ELSE b, record[n], ok),
                     record, n + 1, ok)

\* csv.Writer.Write: the fields with commas between them, then the line feed;
\* the writer after the call, its err set when Write returns an error
CsvWrite(b, record, ok) == WriteByte(WriteFields(b, record, 1, ok), ok)

\* writer.Write(collectHeader(keyMap)) returns nil
WriteHeader ==
    /\ pc = "header"
    /\ stages' = Append(stages, "header")
    /\ \E h \in collectHeader(keyMap) :
           /\ header' = h
           /\ written' = Append(written, h)
           /\ bufw' = CsvWrite(bufw, h, TRUE)
    /\ pc' = "write"
    /\ UNCHANGED <<doc, XESFilePath, opened, xes, keyMap, created, bom, keys, pos, sources,
                   skipped, result, run, prev>>

\* writer.Write(collectHeader(keyMap)) returns an error: the header does not
\* fit the buffer and the file refuses the write; the deferred Flush then does
\* nothing, the writer keeps its error
WriteHeaderFail ==
    /\ pc = "header"
    /\ \E h \in collectHeader(keyMap) :
           LET after == CsvWrite(bufw, h, FALSE)
           IN  after.err /\ bufw' = after
    /\ stages' = Append(stages, "header")
    /\ pc' = "done"
    /\ result' = ErrHeader
    /\ UNCHANGED <<doc, XESFilePath, opened, xes, keyMap, created, bom, header, keys, pos,
                   written, sources, skipped, run, prev>>

\* writeXESToCSV is entered: keys := collectHeader(keyMap)
EnterWrite ==
    /\ pc = "write"
    /\ stages' = Append(stages, "records")
    /\ keys' \in collectHeader(keyMap)
    /\ pos' = Seek(xes, 1, 1)
    /\ pc' = "records"
    /\ UNCHANGED <<doc, XESFilePath, opened, xes, keyMap, created, bom, header, written,
                   sources, bufw, skipped, result, run, prev>>

\* one turn of the inner loop whose writer.Write returns nil
WriteRecord ==
    /\ pc = "records"
    /\ pos[1] <= Len(xes)
    /\ LET trace == xes[pos[1]]
           event == trace.Events[pos[2]]
           record == BuildRecord(keys, trace, event)
       IN  /\ written' = Append(written, record)
           /\ bufw' = CsvWrite(bufw, record, TRUE)
           /\ skipped' = (skipped \/ SkipsAttr(keys, trace, event))
    /\ sources' = Append(sources, pos)
    /\ pos' = Seek(xes, pos[1], pos[2] + 1)
    /\ UNCHANGED <<doc, pc, XESFilePath, stages, opened, xes, keyMap, created, bom, header,
                   keys, result, run, prev>>

\* one turn of the inner loop whose writer.Write returns an error: the record
\* does not fit the buffer and the file refuses the write; the deferred Flush
\* then does nothing, the writer keeps its error
WriteRecordFail ==
    /\ pc = "records"
    /\ pos[1] <= Len(xes)
    /\ LET trace == xes[pos[1]]
           event == trace.Events[pos[2]]
           after == CsvWrite(bufw, BuildRecord(keys, trace, event), FALSE)
       IN  /\ after.err
           /\ bufw' = after
           /\ skipped' = (skipped \/ SkipsAttr(keys, trace, event))
    /\ pc' = "done"
    /\ result' = ErrRecord
    /\ UNCHANGED <<doc, XESFilePath, stages, opened, xes, keyMap, created, bom, header, keys,
                   pos, written, sources, run, prev>>

\* the loops are over: return nil; the deferred writer.Flush() writes the
\* buffer to the file
ReturnFlushOk ==
    /\ pc = "records"
    /\ pos[1] > Len(xes)
    /\ bufw' = Flush(bufw, TRUE)
    /\ pc' = "done"
    /\ result' = "nil"
    /\ UNCHANGED <<doc, XESFilePath, stages, opened, xes, keyMap, created, bom, header, keys,
                   pos, written, sources, skipped, run, prev>>

\* the same, the file refuses the write of the deferred writer.Flush(): Flush
\* returns nothing and writer.Error() is not read
ReturnFlushFail ==
    /\ pc = "records"
    /\ pos[1] > Len(xes)
    /\ Flush(bufw, FALSE).err
    /\ bufw' = Flush(bufw, FALSE)
    /\ pc' = "done"
    /\ result' = "nil"
    /\ UNCHANGED <<doc, XESFilePath, stages, opened, xes, keyMap, created, bom, header, keys,
                   pos, written, sources, skipped, run, prev>>

\* the same input is converted a second time, after a conversion that returned
\* nil and left its whole output in the file
Rerun ==
    /\ pc = "done"
    /\ run = 1
    /\ result = "nil"
    /\ bufw.n = 0 /\ ~bufw.err
    /\ run' = 2
    /\ prev' = written
    /\ Fresh
    /\ UNCHANGED doc

Convert ==
    \/ \E p \in Paths : Call(p)
    \/ OpenOk \/ OpenFail
    \/ DecodeOk \/ DecodeFail
    \/ CollectKeys
    \/ CreateOk \/ CreateFail
    \/ WriteBOMOk \/ WriteBOMFail
    \/ WriteHeader \/ WriteHeaderFail
    \/ EnterWrite
    \/ WriteRecord \/ WriteRecordFail
    \/ ReturnFlushOk \/ ReturnFlushFail

Author ==
    \/ AddTrace
    \/ AddEvent
    \/ \E k \in Keys : AddTraceString(k)
    \/ \E k \in Keys : AddEventString(k)
    \/ \E k \in DateKeys : AddEventDate(k)

Next == Author \/ Convert

\* one conversion of one input
Spec == Init /\ [][Next]_vars

\* two conversions of the same input
SpecTwice == Init /\ [][Next \/ Rerun]_vars

(* ------------------------- helpers of the claims ----------------------- *)
IsPrefix(a, b) == Len(a) <= Len(b) /\ SubSeq(b, 1, Len(a)) = a

\* the events of a log in document order, as <<trace, event>> positions
RECURSIVE DocOrderFrom(_, _)
DocOrderFrom(log, t) ==
    IF t > Len(log) THEN <<>>
    ELSE [e \in 1..Len(log[t].Events) |-> <<t, e>>] \o DocOrderFrom(log, t + 1)
DocOrder(log) == DocOrderFrom(log, 1)

\* every attribute key of a log, a trace-level concept:name renamed
RenamedKeys(log) ==
    { k \in Keys \cup {CCN} :
        \E t \in DOMAIN log :
          \/ \E i \in DOMAIN log[t].StringAttributes :
                 LET a == log[t].StringAttributes[i].Key
                 IN  (a = CN /\ k = CCN) \/ (a # CN /\ k = a)
          \/ \E e \in DOMAIN log[t].Events :
                 \/ \E i \in DOMAIN log[t].Events[e].StringAttributes :
                        log[t].Events[e].StringAttributes[i].Key = k
                 \/ \E i \in DOMAIN log[t].Events[e].DateAttributes :
                        log[t].Events[e].DateAttributes[i].Key = k }

\* the index of the last attribute of attrs whose key is in ks, 0 when none
LastWith(attrs, ks) ==
    IF \E i \in DOMAIN attrs : attrs[i].Key \in ks
    THEN CHOOSE i \in DOMAIN attrs :
             attrs[i].Key \in ks /\ \A j \in DOMAIN attrs : j > i => attrs[j].Key \notin ks
    ELSE 0

\* the first position of a column name in a column list, 0 when absent
FirstPos(cols, name) ==
    IF \E i \in DOMAIN cols : cols[i] = name
    THEN CHOOSE i \in DOMAIN cols : cols[i] = name /\ \A j \in DOMAIN cols : j < i => cols[j] # name
    ELSE 0

\* the trace and the event the k-th data record was built from, and the record
TraceOf(k) == xes[sources[k][1]]
EventOf(k) == xes[sources[k][1]].Events[sources[k][2]]
RecordOf(k) == written[k + 1]

\* event strings, then event dates, then trace strings with concept:name renamed
ApplicationOrder(trace, event) ==
    event.StringAttributes \o event.DateAttributes
      \o [i \in DOMAIN trace.StringAttributes |->
            IF trace.StringAttributes[i].Key = CN
            THEN Attr(CCN, trace.StringAttributes[i].Value)
            ELSE trace.StringAttributes[i]]

EndsInXes(s) == HasSuffix(ToLower(s), ".xes")

HeaderWritten == written # <<>>
KeysChosen == Len(stages) = 8
Returned == pc = "done"

\* the bytes of a field in the CSV output: quoted, with its quotes doubled,
\* when it is \. or has a comma, a quote or a line break or starts with white
\* space
FieldBytes(field) ==
    IF field # "" /\ (field = "\\."
                      \/ IsSpace(SubSeq(field, 1, 1))
                      \/ \E i \in 1..Len(field) : SubSeq(field, i, i) \in {",", "\"", "\r", "\n"})
    THEN Len(field) + 2 + Cardinality({i \in 1..Len(field) : SubSeq(field, i, i) = "\""})
    ELSE Len(field)

RECURSIVE FieldsBytes(_)
FieldsBytes(record) ==
    IF record = <<>> THEN 0 ELSE FieldBytes(Head(record)) + FieldsBytes(Tail(record))

\* the bytes of a record: its fields, the commas between them, the line feed
RecordBytes(record) ==
    FieldsBytes(record) + (IF Len(record) > 1 THEN Len(record) - 1 ELSE 0) + 1

RECURSIVE OutputBytes(_)
OutputBytes(records) ==
    IF records = <<>> THEN 0 ELSE RecordBytes(Head(records)) + OutputBytes(Tail(records))

\* every byte of every record written is in the output file
WholeOutputInFile == bufw.f = OutputBytes(written)

\* the stages of ConvertXESToCSV in the order of its code
StageOrder == <<"validate", "open", "decode", "collect", "create", "bom", "header", "records">>

\* the position in StageOrder of the stage that returns the error in result
FailedStage ==
    CASE result = ErrExtension -> 1
      [] result = ErrOpen -> 2
      [] result = ErrDecode -> 3
      [] result = ErrCreate -> 5
      [] result = ErrBOM -> 6
      [] result = ErrHeader -> 7
      [] result = ErrRecord -> 8
      [] OTHER -> 0

\* some rearrangement of the columns turns the records a into the records b
EqualUpToColumns(a, b) ==
    /\ Len(a) = Len(b)
    /\ \/ a = <<>>
       \/ /\ \A k \in DOMAIN a : Len(a[k]) = Len(a[1]) /\ Len(b[k]) = Len(a[1])
          /\ \E q \in [1..Len(a[1]) -> 1..Len(a[1])] :
                /\ \A i, j \in DOMAIN q : i # j => q[i] # q[j]
                /\ \A k \in DOMAIN a : \A i \in DOMAIN q : b[k][i] = a[k][q[i]]

(* ------------------------------- claims -------------------------------- *)
\* C1: the header holds every attribute key of the log (a trace-level
\* concept:name as case:concept:name) exactly once, and no other name.
C1_ColumnCompleteness ==
    HeaderWritten =>
        /\ \A k \in RenamedKeys(xes) : Cardinality({i \in DOMAIN header : header[i] = k}) = 1
        /\ \A i \in DOMAIN header : header[i] \in RenamedKeys(xes)

\* C2: the column list written as the header record is, position by position,
\* the column list writeXESToCSV places the cells by.
C2_HeaderMatchesKeys == KeysChosen => header = keys

\* C3: the data records are built from the events in document order, one per
\* event; a conversion that returns nil has written exactly one per event of
\* the log.
C3_OneRowPerEvent ==
    /\ IsPrefix(sources, DocOrder(xes))
    /\ HeaderWritten => Len(written) = 1 + Len(sources)
    /\ \A k \in DOMAIN sources : RecordOf(k) = BuildRecord(keys, TraceOf(k), EventOf(k))
    /\ (Returned /\ result = "nil") =>
           /\ sources = DocOrder(xes)
           /\ Len(written) = 1 + EventCount(doc)

\* C3's case: a trace without events is followed by a trace with two events,
\* the first of them without attributes, and the conversion returned nil.
C3_Witness ==
    /\ Returned /\ result = "nil"
    /\ Len(xes) = 2
    /\ xes[1].Events = <<>>
    /\ Len(xes[2].Events) = 2
    /\ EventAttrCount(xes[2].Events[1]) = 0
    /\ Len(written) = 3

\* C4: when the last trace-level attribute that maps to case:concept:name has
\* the key concept:name and the value V, every record of that trace holds
\* trim(V) in the case:concept:name column, whatever the event carries; an
\* event-level concept:name is placed in the concept:name column.
C4_RenameTraceWins ==
    \A k \in DOMAIN sources :
        LET own == TraceOf(k).StringAttributes
            i == LastWith(own, {CN, CCN})
            ev == EventOf(k).StringAttributes \o EventOf(k).DateAttributes
            j == LastWith(ev, {CN})
        IN  /\ (i # 0 /\ own[i].Key = CN) =>
                   /\ FirstPos(keys, CCN) # 0
                   /\ RecordOf(k)[FirstPos(keys, CCN)] = TrimSpace(own[i].Value)
            /\ j # 0 =>
                   /\ FirstPos(keys, CN) # 0
                   /\ RecordOf(k)[FirstPos(keys, CN)] = TrimSpace(ev[j].Value)

\* C4's case: a record of a trace that carries concept:name, built from an
\* event that itself carries case:concept:name and concept:name.
C4_Witness ==
    \E k \in DOMAIN sources :
        /\ LastWith(TraceOf(k).StringAttributes, {CN}) # 0
        /\ LastWith(EventOf(k).StringAttributes \o EventOf(k).DateAttributes, {CCN}) # 0
        /\ LastWith(EventOf(k).StringAttributes \o EventOf(k).DateAttributes, {CN}) # 0
        /\ Returned

\* C5: two conversions of the same input that both return nil, and whose whole
\* output reached the file, leave the same records up to one rearrangement of
\* the columns.
C5_SameOutputUpToColumnOrder ==
    (run = 2 /\ Returned /\ result = "nil" /\ WholeOutputInFile) =>
        EqualUpToColumns(prev, written)

\* C6: ConvertXESToCSV returns nil only when the BOM, the header and every
\* record reached the file.
C6_WriteFailuresSurface ==
    (Returned /\ result = "nil") => (bom /\ WholeOutputInFile)

\* C7: when opening or decoding the input fails the output is never created
\* or written; the stages are entered in the one fixed order, the output is
\* created only after the log is decoded and its keys collected, and a
\* failure is the last stage entered.
C7_InputFailureLeavesOutput ==
    /\ result \in {ErrOpen, ErrDecode} =>
           (Returned /\ ~created /\ ~bom /\ written = <<>> /\ bufw.n = 0 /\ bufw.f = 0)
    /\ IsPrefix(stages, StageOrder)
    /\ created => (Len(stages) >= 5 /\ xes = doc /\ keyMap = collectAttributeKeys(doc))
    /\ (bom \/ written # <<>>) => created
    /\ (Returned /\ result # "nil") => Len(stages) = FailedStage

\* C7's case: a non-empty input was opened and its decoding failed.
C7_Witness ==
    /\ Returned /\ result = ErrDecode
    /\ opened /\ ~created
    /\ EventCount(doc) > 0

\* C8 as stated: a path is rejected, before any file is opened or created,
\* exactly when the path as passed does not end in .xes in some letter case.
C8_RejectsByPathAsPassed ==
    Len(stages) = 1 =>
        IF EndsInXes(XESFilePath)
        THEN pc = "open"
        ELSE Returned /\ result = ErrExtension /\ ~opened /\ ~created

\* C8 amended: a path is rejected, before any file is opened or created,
\* exactly when its filepath.Clean form does not end in .xes in some letter
\* case; every path that itself ends in .xes in some letter case passes.
C8_RejectsByCleanedPath ==
    Len(stages) = 1 =>
        /\ IF EndsInXes(Clean(XESFilePath))
           THEN pc = "open" /\ result = "none"
           ELSE Returned /\ result = ErrExtension /\ ~opened /\ ~created
        /\ EndsInXes(XESFilePath) => pc = "open"

\* C8's case: a path without the extension was rejected with nothing opened
\* or created.
C8_Witness ==
    /\ Returned /\ result = ErrExtension
    /\ XESFilePath = "a.xml"
    /\ EventCount(doc) > 0
    /\ ~opened /\ ~created

\* C9: each cell of a data record is the trimmed value of the last attribute,
\* in the order event strings, event dates, renamed trace strings, whose key
\* is the name of the cell's column, and empty when there is none.
C9_LastWriteWins ==
    \A k \in DOMAIN sources :
        LET seq == ApplicationOrder(TraceOf(k), EventOf(k))
        IN  \A i \in DOMAIN keys :
                RecordOf(k)[i] =
                    IF LastWith(seq, {keys[i]}) = 0 THEN ""
                    ELSE TrimSpace(seq[LastWith(seq, {keys[i]})].Value)

\* C10: no setAttributeValue call of writeXESToCSV finds its key absent from
\* the column list.
C10_NoSkip == ~skipped
====
